---- MODULE Spec2Model ----
(***************************************************************************)
(* Steam -> Notion synchronisation (src/src/index.js, steam.js, notion.js) *)
(* as a state machine.  One run of syncSteamGamesToNotion: the two initial *)
(* fetches of Promise.all, the index build, and the sequential per-item    *)
(* loop with its awaits.  The remote services (the Steam library, the      *)
(* Steam achievement endpoint, the Notion database) are the environment.   *)
(* Spec is one run; RunsSpec is the script started again and again against *)
(* the same services; RatioSpec is getGameAchievements taken alone.        *)
(***************************************************************************)
EXTENDS Integers, Sequences, FiniteSets, TLC

(***************************************************************************)
(* Bounds of the model.                                                    *)
(***************************************************************************)
MaxAppId == 2      \* Steam app ids are 1..MaxAppId; the database holds at most MaxAppId records
MaxPlay == 1       \* playtime_forever ranges over 0..MaxPlay
MaxAch == 2        \* an achievements array has at most MaxAch entries
PageSize == 1      \* the Notion service answers a query with at most PageSize records
MaxFlags == 5      \* getGameAchievements taken alone: its achievements array has at most MaxFlags entries
MaxRuns == 2       \* the program is run at most MaxRuns times in a row against the same services

Names == {"A", "B"}
PropNames == {"appid", "name", "play_time", "achievement"}

(***************************************************************************)
(* Numbers that are ratios are kept as reduced fractions <<num, den>>:     *)
(* two JS doubles a/b and c/d of small integers are === exactly when the   *)
(* fractions are equal.                                                    *)
(***************************************************************************)
RECURSIVE Gcd(_, _)
Gcd(a, b) == IF b = 0 THEN a ELSE Gcd(b, a % b)

Div(n, d) == <<n \div Gcd(n, d), d \div Gcd(n, d)>>

\* steam.js: completionRate -1, "no achievements or stats not available"
NoRate == <<-1, 1>>

\* index.js:45  `let nextCursor;`  (undefined / null: no cursor)
NoCursor == 0

(***************************************************************************)
(* Pure parts of the code.                                                 *)
(***************************************************************************)
EmptyObj == [k \in {} |-> 0]

\* Variant: the filter keeps the entries that are not achieved.
RECURSIVE CountNotAchieved(_)
CountNotAchieved(achievements) ==
    IF achievements = <<>> THEN 0
    ELSE (IF Head(achievements) = 0 THEN 1 ELSE 0) + CountNotAchieved(Tail(achievements))

\* steam.js:87  achievements.filter(ach => ach.achieved === 1).length
RECURSIVE CountAchieved(_)
CountAchieved(achievements) ==
    IF achievements = <<>> THEN 0
    ELSE (IF Head(achievements) = 1 THEN 1 ELSE 0) + CountAchieved(Tail(achievements))

\* steam.js getGameAchievements: the completionRate it returns for a response
\* of the endpoint.  status 0 is a rejected fetch (network failure).
getGameAchievements(resp) ==
    IF resp.status = 0 THEN NoRate                       \* catch, line 91
    ELSE IF resp.status = 400 THEN NoRate                \* line 61-67
    ELSE IF resp.status # 200 THEN NoRate                \* throw line 70, catch line 91
    ELSE IF resp.body = "unparsable" THEN NoRate         \* response.json() rejects
    ELSE IF resp.body = "no_playerstats" THEN NoRate     \* line 75-78
    ELSE IF Len(resp.achievements) = 0 THEN NoRate       \* line 83-85
    ELSE Div(CountAchieved(resp.achievements), Len(resp.achievements))

\* steam.js getGameAchievements: TRUE when the response takes the call into
\* its catch block (console.error, line 92)
getGameAchievementsLogsError(resp) ==
    IF resp.status = 200 THEN resp.body = "unparsable" ELSE resp.status # 400

\* Variant: the catch block rethrows what it logged instead of returning -1.
getGameAchievementsRethrows(resp) == getGameAchievementsLogsError(resp)

\* steam.js:56-95  the whole body is inside try, and the catch returns: no
\* response makes getGameAchievements reject.
getGameAchievementsThrows(resp) == FALSE

\* index.js:178  the configuration values the script needs
requiredKeys == <<"notionApiKey", "databaseId", "steamKey", "steamId">>

\* index.js:179  requiredKeys.filter(key => !config[key]): an environment
\* variable that is unset or empty gives a falsy value, written "" here.
missingKeys(cfg) == SelectSeq(requiredKeys, LAMBDA key : cfg[key] = "")

\* index.js:181  if (missingKeys.length > 0): log and process.exit(1)
ConfigRejected(cfg) == Len(missingKeys(cfg)) > 0

\* steam.js getOwnedGames: the object keyed by appid (last entry of an appid wins)
RECURSIVE ReduceGames(_, _)
ReduceGames(acc, games) ==
    IF games = <<>> THEN acc
    ELSE ReduceGames(
           [k \in (DOMAIN acc) \cup {Head(games).appid} |->
               IF k = Head(games).appid THEN Head(games) ELSE acc[k]],
           Tail(games))

getOwnedGames(outcome, library) ==
    IF outcome = "ok" THEN ReduceGames(EmptyObj, library) ELSE EmptyObj

\* Variant: the catch block rethrows what it logged instead of returning {}.
getOwnedGamesRethrows(outcome) == outcome \in {"http_error", "network_error", "bad_json"}

\* steam.js:20-40  the fetch, the status test and response.json() are inside
\* try, and the catch returns: no outcome makes getOwnedGames reject.
getOwnedGamesThrows(outcome) == FALSE

\* index.js:80-86  notionPages.reduce: pages whose appid is truthy, last wins
RECURSIVE ReducePages(_, _)
ReducePages(map, pages) ==
    IF pages = <<>> THEN map
    ELSE LET page == Head(pages)
             present == "appid" \in DOMAIN page.properties /\ page.properties["appid"] # 0
         IN ReducePages(
              IF present
              THEN [k \in (DOMAIN map) \cup {page.properties["appid"]} |->
                       IF k = page.properties["appid"] THEN page ELSE map[k]]
              ELSE map,
              Tail(pages))

\* Variant: an earlier record with the same appid is kept (first wins).
BuildAppIdMapFirstWins(pages) ==
    ReducePages(EmptyObj, [i \in 1..Len(pages) |-> pages[Len(pages) + 1 - i]])

BuildAppIdMap(pages) == ReducePages(EmptyObj, pages)

\* for (const appid in steamGames): integer keys in ascending order
RECURSIVE SortedKeys(_)
SortedKeys(S) ==
    IF S = {} THEN <<>>
    ELSE LET m == CHOOSE x \in S : \A y \in S : x <= y
         IN <<m>> \o SortedKeys(S \ {m})

\* existingProperties?.<prop>?... !== value
Differs(props, prop, value) == IF prop \in DOMAIN props THEN props[prop] # value ELSE TRUE

\* Variant: the name is staged without comparing it.
NameDeltaAlways(game, props) == [k \in {"name"} |-> game.name]

\* index.js:119-121
NameDelta(game, props) ==
    IF Differs(props, "name", game.name) THEN [k \in {"name"} |-> game.name] ELSE EmptyObj

\* Variant: the achievements are refreshed when the name changed too.
PlaytimeOrNameChanged(game, props) ==
    IF Differs(props, "play_time", game.playtime_forever) THEN TRUE
    ELSE Differs(props, "name", game.name)

\* Variant: the playtime is not compared, every matched item is refreshed.
PlaytimeAlwaysChanged(game, props) == TRUE

\* Variant: a page that has no achievement yet is refreshed too.
PlaytimeChangedOrNoAchievement(game, props) ==
    IF Differs(props, "play_time", game.playtime_forever) THEN TRUE
    ELSE "achievement" \notin DOMAIN props

\* index.js:124
PlaytimeChanged(game, props) == Differs(props, "play_time", game.playtime_forever)

\* Variant: the identifier is sent along with the playtime.
PlaytimeDeltaWithAppid(game) ==
    [k \in {"play_time", "appid"} |->
        IF k = "appid" THEN game.appid ELSE game.playtime_forever]

\* index.js:125
PlaytimeDelta(game) == [k \in {"play_time"} |-> game.playtime_forever]

\* Variant: the -1 sentinel is not tested.
AchievementDeltaNoSentinel(rate, props) ==
    IF Differs(props, "achievement", rate)
    THEN [k \in {"achievement"} |-> rate] ELSE EmptyObj

\* Variant: the rate is tested for truthiness, and 0 is falsy.
AchievementDeltaTruthy(rate, props) ==
    IF rate # NoRate /\ rate[1] # 0 /\ Differs(props, "achievement", rate)
    THEN [k \in {"achievement"} |-> rate] ELSE EmptyObj

\* index.js:129-131
AchievementDelta(rate, props) ==
    IF rate # NoRate /\ Differs(props, "achievement", rate)
    THEN [k \in {"achievement"} |-> rate] ELSE EmptyObj

\* Variant: the achievement is written whatever the rate is.
CreatePropertiesAlwaysAchievement(game, rate) ==
    [k \in {"appid", "name", "play_time", "achievement"} |->
        CASE k = "appid" -> game.appid
          [] k = "name" -> game.name
          [] k = "play_time" -> game.playtime_forever
          [] k = "achievement" -> rate]

\* Variant: the new page is created without its appid.
CreatePropertiesNoAppid(game, rate) ==
    [k \in {"name", "play_time"} \cup (IF rate # NoRate THEN {"achievement"} ELSE {}) |->
        CASE k = "name" -> game.name
          [] k = "play_time" -> game.playtime_forever
          [] k = "achievement" -> rate]

\* index.js:150-159
CreateProperties(game, rate) ==
    [k \in {"appid", "name", "play_time"} \cup (IF rate # NoRate THEN {"achievement"} ELSE {}) |->
        CASE k = "appid" -> game.appid
          [] k = "name" -> game.name
          [] k = "play_time" -> game.playtime_forever
          [] k = "achievement" -> rate]

\* Variant: updatePage is called whatever was staged.
NeedsUpdateAlways(delta) == TRUE

\* index.js:135
NeedsUpdate(delta) == Cardinality(DOMAIN delta) > 0

\* index.js:56-57: the cursor of the following query
NextQueryCursor(response) == response.next_cursor

\* Variant: the loop stops after the first page.
MorePagesNever(cursor) == FALSE

\* index.js:57  while (nextCursor)
MorePages(cursor) == cursor # NoCursor

\* Variant: the error of an item is not caught and ends the run.
ItemErrorAborts == "exit1"

\* index.js:99-102: where control goes after an item threw (the catch logs and
\* the for loop goes on)
ItemErrorContinuation == "loop"

\* Variant: the rejection of the read is swallowed and the run waits on.
QueryErrorSwallowed == "fetching"

\* index.js:193-196: where control goes after the full read threw (nothing
\* catches it before main, which logs and calls process.exit(1))
QueryErrorContinuation == "exit1"

(***************************************************************************)
(* The environment: what the remote services hold and may answer.          *)
(***************************************************************************)
Games == [appid : 1..MaxAppId, name : Names, playtime_forever : 0..MaxPlay]

SeqsUpTo(S, n) == UNION {[1..k -> S] : k \in 0..n}

\* The library Steam returns: distinct apps, ascending appid.
LibrariesOf(G) ==
    UNION {{lib \in [1..Cardinality(S) -> G] :
               \A i \in 1..Cardinality(S) : lib[i].appid = SortedKeys(S)[i]} :
           S \in SUBSET (1..MaxAppId)}

\* The ratios an achievements array of at most MaxAch entries can give.
Rates == {Div(q[1], q[2]) : q \in {r \in (0..MaxAch) \X (1..MaxAch) : r[1] <= r[2]}}

Optional(S) == {{}} \cup {{v} : v \in S}

\* A Notion page's properties; a property that is absent (or null) is not in the domain.
MkProps(a, n, p, c) ==
    [k \in {q \in PropNames : (CASE q = "appid" -> a [] q = "name" -> n
                                 [] q = "play_time" -> p [] q = "achievement" -> c) # {}} |->
        CASE k = "appid" -> CHOOSE v \in a : TRUE
          [] k = "name" -> CHOOSE v \in n : TRUE
          [] k = "play_time" -> CHOOSE v \in p : TRUE
          [] k = "achievement" -> CHOOSE v \in c : TRUE]

AllProps == {MkProps(a, n, p, c) : a \in Optional(0..MaxAppId), n \in Optional(Names),
                                   p \in Optional(0..MaxPlay), c \in Optional(Rates)}

PlainProps == {MkProps(a, {"A"}, {0}, {}) : a \in Optional(1..MaxAppId)}

\* The database: page ids are the positions.
Database(ps) == [i \in 1..Len(ps) |-> [id |-> i, properties |-> ps[i]]]

\* One game against one page with every combination of properties ...
DeepWorlds ==
    {<<lib, Database(ps)>> : lib \in {l \in LibrariesOf(Games) : Len(l) <= 1},
                             ps \in SeqsUpTo(AllProps, 1)}

\* ... and several games against several pages, pages and games with
\* playtime 0, the pages holding name "A" and no achievement.
WideWorlds ==
    {<<lib, Database(ps)>> :
        lib \in LibrariesOf({g \in Games : g.playtime_forever = 0}),
        ps \in SeqsUpTo(PlainProps, MaxAppId)}

Worlds == DeepWorlds \cup WideWorlds

\* config.js:9-37  the configuration read from the environment variables:
\* complete, with one of the values missing, or with none of them set.
Range(q) == {q[i] : i \in DOMAIN q}
FullConfig == [key \in Range(requiredKeys) |-> "set"]
Configs ==
    {FullConfig}
    \cup {[FullConfig EXCEPT ![key] = ""] : key \in Range(requiredKeys)}
    \cup {[key \in Range(requiredKeys) |-> ""]}

\* No answer of the achievement endpoint is at hand.
NoAnswer == [status |-> -1, body |-> "none"]

\* What GetPlayerAchievements may answer; status 0 is a fetch that rejects.
AchResponses(up) ==
    IF ~up THEN {[status |-> 0, body |-> "none", achievements |-> <<>>]}
    ELSE {[status |-> s, body |-> "none", achievements |-> <<>>] : s \in {0, 400, 500}}
         \cup {[status |-> 200, body |-> b, achievements |-> <<>>] : b \in {"unparsable", "no_playerstats"}}
         \cup {[status |-> 200, body |-> "ok", achievements |-> a] : a \in SeqsUpTo({0, 1}, MaxAch)}

\* Notion: the page of records after the cursor, and the next cursor when
\* records remain after it.
ServerPage(db, cursor) ==
    LET n == IF Len(db) - cursor < PageSize THEN Len(db) - cursor ELSE PageSize
    IN [results |-> SubSeq(db, cursor + 1, cursor + n),
        next_cursor |-> IF cursor + n < Len(db) THEN cursor + n ELSE NoCursor]

\* Notion PATCH /pages/:id and POST /pages
ApplyUpdate(db, pageId, delta) ==
    [i \in DOMAIN db |->
        IF db[i].id = pageId THEN [db[i] EXCEPT !.properties = delta @@ @] ELSE db[i]]

ApplyCreate(db, properties) == Append(db, [id |-> Len(db) + 1, properties |-> properties])

(***************************************************************************)
(* State.                                                                  *)
(***************************************************************************)
VARIABLES
    steamLibrary,       \* environment: the games Steam reports as owned
    steamStatsUp,       \* environment: the achievement endpoint is reachable
    notionDb,           \* environment: the pages of the Notion database
    pc,                 \* where syncSteamGamesToNotion stands
    ownedState,         \* getOwnedGames: "idle", "pending", "done" ("failed" had it rejected)
    pagesState,         \* getAllDatabasePages: "idle", "pending", "done", "failed"
    steamGames,         \* index.js:71
    results,            \* index.js:44
    nextCursor,         \* index.js:45
    queryCursor,        \* start_cursor of the query in flight
    notionAppIdMap,     \* index.js:80
    keys,               \* the keys the for-in loop walks, in its order
    idx,                \* position of the loop in keys
    path,               \* "create" / "update": the function the item is in
    propertiesToUpdate, \* index.js:115 (update) / index.js:150 (create)
    calls,              \* history: every remote call issued, in order
    completionRate,     \* index.js:127 / index.js:148, of the item at hand
    answer,             \* status and body kind the achievement endpoint gave for the item at hand
    processed,          \* history: the appids the loop body was entered for
    syncErrors,         \* console.error of index.js:101, by appid
    pageCursors,        \* history: the next_cursor of every query answer, in order
    previous,           \* history: what the earlier runs of the program did, oldest first
    config              \* config.js: the configuration the process was started with

vars == <<steamLibrary, steamStatsUp, previous, config, notionDb, pc, ownedState, pagesState, steamGames,
          results, nextCursor, queryCursor, notionAppIdMap, keys, idx, path,
          propertiesToUpdate, completionRate, answer, calls, processed, syncErrors,
          pageCursors>>

env == <<steamLibrary, steamStatsUp, previous, config>>
fetchVars == <<ownedState, pagesState, steamGames, results, nextCursor, queryCursor>>
indexVars == <<notionAppIdMap, keys>>
itemVars == <<path, propertiesToUpdate, completionRate, answer>>
loopFrame == <<env, fetchVars, indexVars, pageCursors>>

Call(api, item, arg, properties) ==
    [api |-> api, item |-> item, arg |-> arg, properties |-> properties]

Init ==
    /\ \E w \in Worlds : steamLibrary = w[1] /\ notionDb = w[2]
    /\ steamStatsUp \in BOOLEAN
    /\ pc = "start"
    /\ ownedState = "idle"
    /\ pagesState = "idle"
    /\ steamGames = EmptyObj
    /\ results = <<>>
    /\ nextCursor = NoCursor
    /\ queryCursor = NoCursor
    /\ notionAppIdMap = EmptyObj
    /\ keys = <<>>
    /\ idx = 0
    /\ path = "none"
    /\ propertiesToUpdate = EmptyObj
    /\ calls = <<>>
    /\ completionRate = NoRate
    /\ answer = NoAnswer
    /\ processed = <<>>
    /\ syncErrors = <<>>
    /\ pageCursors = <<>>
    /\ previous = <<>>
    /\ config \in Configs

(***************************************************************************)
(* index.js:67-74  syncSteamGamesToNotion up to the await of Promise.all:  *)
(* getOwnedGames runs to its fetch, then getAllDatabasePages runs to the   *)
(* fetch of its first query (start_cursor undefined).                      *)
(***************************************************************************)
\* Variant: the two fetches are awaited one after the other; the catalog fetch
\* starts alone.
SyncStartSequential ==
    /\ pc = "start"
    /\ ~ConfigRejected(config)
    /\ pc' = "fetching"
    /\ ownedState' = "pending"
    /\ calls' = Append(calls, Call("getOwnedGames", 0, 0, EmptyObj))
    /\ UNCHANGED <<env, notionDb, pagesState, queryCursor, steamGames, results, nextCursor,
                   indexVars, idx, itemVars, processed, syncErrors, pageCursors>>

\* index.js:177-185, 192  validateConfig finds a value missing: it logs the
\* names and the process exits with status 1 before anything is requested.
ValidateConfigExit ==
    /\ pc = "start"
    /\ ConfigRejected(config)
    /\ pc' = "exit1"
    /\ UNCHANGED <<env, notionDb, fetchVars, indexVars, idx, itemVars, calls, processed,
                   syncErrors, pageCursors>>

\* index.js:192-193 validateConfig returns, then
SyncStart ==
    /\ pc = "start"
    /\ ~ConfigRejected(config)
    /\ pc' = "fetching"
    /\ ownedState' = "pending"
    /\ pagesState' = "pending"
    /\ queryCursor' = nextCursor
    /\ calls' = calls \o <<Call("getOwnedGames", 0, 0, EmptyObj),
                           Call("queryDatabase", 0, nextCursor, EmptyObj)>>
    /\ UNCHANGED <<env, notionDb, steamGames, results, nextCursor, indexVars, idx, itemVars,
                   processed, syncErrors, pageCursors>>

\* What may come of the GetOwnedGames request: a 2xx response with the games,
\* a non-2xx response, a rejected fetch, a body that is not JSON, a JSON body
\* without response.games.
OwnedOutcomes == {"ok", "http_error", "network_error", "bad_json", "no_games"}

\* steam.js:17-41  getOwnedGames settles.  (Were it to reject, Promise.all
\* would reject and main would exit, as for a query that throws.)
OwnedGamesReturn ==
    /\ pc = "fetching"
    /\ ownedState = "pending"
    /\ \E outcome \in OwnedOutcomes :
          IF getOwnedGamesThrows(outcome)
          THEN /\ ownedState' = "failed"
               /\ pc' = QueryErrorContinuation
               /\ UNCHANGED steamGames
          ELSE /\ steamGames' = getOwnedGames(outcome, steamLibrary)
               /\ ownedState' = "done"
               /\ UNCHANGED pc
    /\ UNCHANGED <<env, notionDb, pagesState, results, nextCursor, queryCursor, indexVars,
                   idx, itemVars, calls, processed, syncErrors, pageCursors>>

\* index.js:47-57  one query answered: accumulate, then either query again
\* with the cursor of the answer or return the results.
QueryReturn ==
    /\ pc = "fetching"
    /\ pagesState = "pending"
    /\ LET response == ServerPage(notionDb, queryCursor)
           cursor == NextQueryCursor(response)
       IN   /\ results' = results \o response.results
            /\ nextCursor' = cursor
            /\ pageCursors' = Append(pageCursors, response.next_cursor)
            /\ IF MorePages(cursor)
               THEN /\ queryCursor' = cursor
                    /\ calls' = Append(calls, Call("queryDatabase", 0, cursor, EmptyObj))
                    /\ pagesState' = "pending"
               ELSE /\ pagesState' = "done"
                    /\ UNCHANGED <<queryCursor, calls>>
    /\ UNCHANGED <<env, notionDb, pc, ownedState, steamGames, indexVars, idx, itemVars,
                   processed, syncErrors>>

\* notion.js:38-55 throws, getAllDatabasePages rejects, Promise.all rejects,
\* index.js:193-196 logs and exits with status 1.
QueryThrow ==
    /\ pc = "fetching"
    /\ pagesState = "pending"
    /\ pagesState' = "failed"
    /\ pc' = QueryErrorContinuation
    /\ UNCHANGED <<env, notionDb, ownedState, steamGames, results, nextCursor, queryCursor,
                   indexVars, idx, itemVars, calls, processed, syncErrors, pageCursors>>

\* index.js:75-89  both fetches settled: build the index, enter the loop.
BuildIndex ==
    /\ pc = "fetching"
    /\ ownedState = "done"
    /\ pagesState = "done"
    /\ notionAppIdMap' = BuildAppIdMap(results)
    /\ keys' = SortedKeys(DOMAIN steamGames)
    /\ idx' = 1
    /\ pc' = "loop"
    /\ UNCHANGED <<env, notionDb, fetchVars, itemVars, calls, processed, syncErrors,
                   pageCursors>>

\* Variant: the loop does not await the function it called for the item.
AtItemNoAwait == idx \in 1..Len(keys)

\* index.js:89-98  the loop takes a key: it is not suspended on an await of
\* the item before, and a key is left.
AtItem == pc = "loop" /\ idx \in 1..Len(keys)
appid == keys[idx]
game == steamGames[appid]
Matched == appid \in DOMAIN notionAppIdMap
\* Variant: the page is looked up under the first key of the loop.
existingPageOfFirstKey ==
    IF keys[1] \in DOMAIN notionAppIdMap THEN notionAppIdMap[keys[1]] ELSE notionAppIdMap[appid]

\* index.js:91
existingPage == notionAppIdMap[appid]

\* index.js:114-139 with name and playtime unchanged: nothing staged, no call.
UpdateUnchanged ==
    /\ AtItem /\ Matched
    /\ ~PlaytimeChanged(game, existingPage.properties)
    /\ ~NeedsUpdate(NameDelta(game, existingPage.properties))
    /\ processed' = Append(processed, appid)
    /\ idx' = idx + 1
    /\ UNCHANGED <<loopFrame, notionDb, pc, itemVars, calls, syncErrors>>

\* index.js:114-139 with playtime unchanged and the name changed: updatePage.
UpdateNameOnly ==
    /\ AtItem /\ Matched
    /\ ~PlaytimeChanged(game, existingPage.properties)
    /\ NeedsUpdate(NameDelta(game, existingPage.properties))
    /\ processed' = Append(processed, appid)
    /\ path' = "update"
    /\ propertiesToUpdate' = NameDelta(game, existingPage.properties)
    /\ calls' = Append(calls, Call("updatePage", appid, existingPage.id,
                                   NameDelta(game, existingPage.properties)))
    /\ pc' = "await_write"
    /\ UNCHANGED <<loopFrame, notionDb, idx, completionRate, answer, syncErrors>>

\* index.js:114-127 with playtime changed: stage, then await getGameAchievements.
UpdatePlaytime ==
    /\ AtItem /\ Matched
    /\ PlaytimeChanged(game, existingPage.properties)
    /\ processed' = Append(processed, appid)
    /\ path' = "update"
    /\ propertiesToUpdate' = PlaytimeDelta(game) @@ NameDelta(game, existingPage.properties)
    /\ calls' = Append(calls, Call("getGameAchievements", appid, game.appid, EmptyObj))
    /\ pc' = "await_ach"
    /\ UNCHANGED <<loopFrame, notionDb, idx, completionRate, answer, syncErrors>>

\* index.js:146-148  createNewGamePage up to the await of getGameAchievements.
CreateBegin ==
    /\ AtItem /\ ~Matched
    /\ processed' = Append(processed, appid)
    /\ path' = "create"
    /\ calls' = Append(calls, Call("getGameAchievements", appid, game.appid, EmptyObj))
    /\ pc' = "await_ach"
    /\ UNCHANGED <<loopFrame, notionDb, idx, propertiesToUpdate, completionRate, answer,
                   syncErrors>>

\* The item at hand is over: the loop goes to the next key.
ItemOver ==
    /\ idx' = idx + 1
    /\ path' = "none"
    /\ propertiesToUpdate' = EmptyObj
    /\ completionRate' = NoRate
    /\ answer' = NoAnswer

\* steam.js:53-96 settles, then index.js:128-138.
UpdateAchievementsReturn ==
    /\ pc = "await_ach" /\ path = "update"
    /\ \E resp \in AchResponses(steamStatsUp) :
         LET rate == getGameAchievements(resp)
             delta == AchievementDelta(rate, existingPage.properties) @@ propertiesToUpdate
         IN IF getGameAchievementsThrows(resp)
            THEN /\ syncErrors' = Append(syncErrors, appid)
                 /\ pc' = ItemErrorContinuation
                 /\ ItemOver
                 /\ UNCHANGED calls
            ELSE IF NeedsUpdate(delta)
            THEN /\ completionRate' = rate
                 /\ answer' = [status |-> resp.status, body |-> resp.body]
                 /\ propertiesToUpdate' = delta
                 /\ calls' = Append(calls, Call("updatePage", appid, existingPage.id, delta))
                 /\ pc' = "await_write"
                 /\ UNCHANGED <<idx, path, syncErrors>>
            ELSE /\ pc' = "loop"
                 /\ ItemOver
                 /\ UNCHANGED <<calls, syncErrors>>
    /\ UNCHANGED <<loopFrame, notionDb, processed>>

\* steam.js:53-96 settles, then index.js:150-170.
CreateAchievementsReturn ==
    /\ pc = "await_ach" /\ path = "create"
    /\ \E resp \in AchResponses(steamStatsUp) :
         LET rate == getGameAchievements(resp)
         IN IF getGameAchievementsThrows(resp)
            THEN /\ syncErrors' = Append(syncErrors, appid)
                 /\ pc' = ItemErrorContinuation
                 /\ ItemOver
                 /\ UNCHANGED calls
            ELSE /\ completionRate' = rate
                 /\ answer' = [status |-> resp.status, body |-> resp.body]
                 /\ propertiesToUpdate' = CreateProperties(game, rate)
                 /\ calls' = Append(calls, Call("createPage", appid, game.appid,
                                                CreateProperties(game, rate)))
                 /\ pc' = "await_write"
                 /\ UNCHANGED <<idx, path, syncErrors>>
    /\ UNCHANGED <<loopFrame, notionDb, processed>>

\* What the request in flight does to the database when the service applies it.
Applied(db) ==
    IF path = "create" THEN ApplyCreate(db, propertiesToUpdate)
    ELSE ApplyUpdate(db, existingPage.id, propertiesToUpdate)

\* notion.js:21-50 returns; the awaited function returns; next item.
WriteReturn ==
    /\ pc = "await_write"
    /\ notionDb' = Applied(notionDb)
    /\ pc' = "loop"
    /\ ItemOver
    /\ UNCHANGED <<loopFrame, calls, processed, syncErrors>>

\* notion.js:38-55 throws (the service rejected the request); index.js:99-102
\* catches, logs, and the loop goes on.
WriteThrow ==
    /\ pc = "await_write"
    /\ syncErrors' = Append(syncErrors, appid)
    /\ pc' = ItemErrorContinuation
    /\ ItemOver
    /\ UNCHANGED <<loopFrame, notionDb, calls, processed>>

\* index.js:103-105  the loop is over: "Synchronization complete."
Complete ==
    /\ pc = "loop"
    /\ idx > Len(keys)
    /\ pc' = "done"
    /\ UNCHANGED <<loopFrame, notionDb, idx, itemVars, calls, processed, syncErrors>>

Next ==
    \/ ValidateConfigExit
    \/ SyncStart
    \/ OwnedGamesReturn
    \/ QueryReturn
    \/ QueryThrow
    \/ BuildIndex
    \/ UpdateUnchanged
    \/ UpdateNameOnly
    \/ UpdatePlaytime
    \/ CreateBegin
    \/ UpdateAchievementsReturn
    \/ CreateAchievementsReturn
    \/ WriteReturn
    \/ WriteThrow
    \/ Complete

Spec == Init /\ [][Next]_vars

\* Every remote call that is issued is eventually answered.
FairSpec == Spec /\ WF_vars(Next)

(***************************************************************************)
(* The program run again and again (index.js:199, main() at each start of  *)
(* the script) against the same services, with the same configuration:    *)
(* the database is as the run before left it, Steam reports the same apps  *)
(* with the same playtimes (names may have changed), the achievement       *)
(* endpoint may have come up or gone down.  A run starts when the one      *)
(* before is over, completed or exited.                                    *)
(***************************************************************************)
\* One game, played MaxPlay minutes, against no page or one page that may
\* lack the appid, the playtime or the achievement ...
RunProps == {MkProps(a, {"A"}, p, c) : a \in Optional({1}), p \in Optional(0..MaxPlay),
                                       c \in Optional({Div(1, 2)})}

RunGames == {g \in Games : g.appid = 1 /\ g.playtime_forever = MaxPlay}

\* ... and two games against their two pages, the second game as its page has it.
RunWorlds ==
    {<<lib, Database(ps)>> : lib \in {<<g>> : g \in RunGames}, ps \in SeqsUpTo(RunProps, 1)}
    \cup {<<lib, Database(ps)>> :
             lib \in {<<g, [appid |-> 2, name |-> "A", playtime_forever |-> 0]>> : g \in RunGames},
             ps \in {<<MkProps({1}, {"A"}, {0}, {}), MkProps({2}, {"A"}, {0}, {})>>}}

RunsInit ==
    /\ \E w \in RunWorlds : steamLibrary = w[1] /\ notionDb = w[2]
    /\ steamStatsUp \in BOOLEAN
    /\ pc = "start"
    /\ ownedState = "idle"
    /\ pagesState = "idle"
    /\ steamGames = EmptyObj
    /\ results = <<>>
    /\ nextCursor = NoCursor
    /\ queryCursor = NoCursor
    /\ notionAppIdMap = EmptyObj
    /\ keys = <<>>
    /\ idx = 0
    /\ path = "none"
    /\ propertiesToUpdate = EmptyObj
    /\ calls = <<>>
    /\ completionRate = NoRate
    /\ answer = NoAnswer
    /\ processed = <<>>
    /\ syncErrors = <<>>
    /\ pageCursors = <<>>
    /\ previous = <<>>
    /\ config \in Configs

Renamed(library) ==
    {lib \in [DOMAIN library -> Games] :
        \A i \in DOMAIN library :
            /\ lib[i].appid = library[i].appid
            /\ lib[i].playtime_forever = library[i].playtime_forever}

\* What is kept of a run that is over.
Summary ==
    [pc |-> pc, steamGames |-> steamGames, steamStatsUp |-> steamStatsUp,
     notionAppIdMap |-> notionAppIdMap, calls |-> calls, syncErrors |-> syncErrors]

NextRun ==
    /\ pc \in {"done", "exit1"}
    /\ Len(previous) + 1 < MaxRuns
    /\ previous' = Append(previous, Summary)
    /\ steamLibrary' \in Renamed(steamLibrary)
    /\ steamStatsUp' \in BOOLEAN
    /\ pc' = "start"
    /\ ownedState' = "idle"
    /\ pagesState' = "idle"
    /\ steamGames' = EmptyObj
    /\ results' = <<>>
    /\ nextCursor' = NoCursor
    /\ queryCursor' = NoCursor
    /\ notionAppIdMap' = EmptyObj
    /\ keys' = <<>>
    /\ idx' = 0
    /\ path' = "none"
    /\ propertiesToUpdate' = EmptyObj
    /\ calls' = <<>>
    /\ completionRate' = NoRate
    /\ answer' = NoAnswer
    /\ processed' = <<>>
    /\ syncErrors' = <<>>
    /\ pageCursors' = <<>>
    /\ UNCHANGED <<notionDb, config>>

RunsNext ==
    \/ Next
    \/ NextRun

RunsSpec == RunsInit /\ [][RunsNext]_vars

(***************************************************************************)
(* getGameAchievements taken alone (steam.js:53-96): one call on a         *)
(* response of the endpoint, with achievements arrays of up to MaxFlags    *)
(* entries.  answer holds the response, completionRate what the call       *)
(* returned; nothing else of the program runs.                             *)
(***************************************************************************)
FlagResponses ==
    {[status |-> s, body |-> "none", achievements |-> <<>>] : s \in {0, 400, 500}}
    \cup {[status |-> 200, body |-> b, achievements |-> <<>>] : b \in {"unparsable", "no_playerstats"}}
    \cup {[status |-> 200, body |-> "ok", achievements |-> a] : a \in SeqsUpTo({0, 1}, MaxFlags)}

RatioInit ==
    /\ steamLibrary = <<>>
    /\ notionDb = <<>>
    /\ steamStatsUp = TRUE
    /\ pc = "ach_call"
    /\ ownedState = "idle"
    /\ pagesState = "idle"
    /\ steamGames = EmptyObj
    /\ results = <<>>
    /\ nextCursor = NoCursor
    /\ queryCursor = NoCursor
    /\ notionAppIdMap = EmptyObj
    /\ keys = <<>>
    /\ idx = 0
    /\ path = "none"
    /\ propertiesToUpdate = EmptyObj
    /\ calls = <<>>
    /\ completionRate = NoRate
    /\ answer \in FlagResponses
    /\ processed = <<>>
    /\ syncErrors = <<>>
    /\ pageCursors = <<>>
    /\ previous = <<>>
    /\ config = FullConfig

\* steam.js:53-96  the call runs on the response and returns its completionRate.
GetGameAchievementsCall ==
    /\ pc = "ach_call"
    /\ ~getGameAchievementsThrows(answer)
    /\ completionRate' = getGameAchievements(answer)
    /\ pc' = "ach_returned"
    /\ UNCHANGED <<loopFrame, notionDb, idx, path, propertiesToUpdate, answer, calls,
                   processed, syncErrors>>

\* The same response is handed to another call.
GetGameAchievementsAgain ==
    /\ pc = "ach_returned"
    /\ completionRate' = NoRate
    /\ pc' = "ach_call"
    /\ UNCHANGED <<loopFrame, notionDb, idx, path, propertiesToUpdate, answer, calls,
                   processed, syncErrors>>

RatioNext ==
    \/ GetGameAchievementsCall
    \/ GetGameAchievementsAgain

RatioSpec == RatioInit /\ [][RatioNext]_vars

(***************************************************************************)
(* Vocabulary of the properties.                                           *)
(***************************************************************************)
WriteApis == {"createPage", "updatePage"}

\* Positions in the call history of the calls of the given kinds made for item k.
CallsOf(k, apis) == {i \in DOMAIN calls : calls[i].item = k /\ calls[i].api \in apis}

\* The loop has entered the catalog (the index is built).
InLoop == pc \in {"loop", "await_ach", "await_write", "done"}

\* Item k's iteration of the loop is over.
Finished(k) == InLoop /\ \E j \in DOMAIN keys : keys[j] = k /\ j < idx

Items == IF InLoop THEN DOMAIN steamGames ELSE {}

IsMatched(k) == k \in DOMAIN notionAppIdMap
PageProps(k) == notionAppIdMap[k].properties
SameName(k) == "name" \in DOMAIN PageProps(k) /\ PageProps(k)["name"] = steamGames[k].name
SamePlaytime(k) ==
    "play_time" \in DOMAIN PageProps(k) /\ PageProps(k)["play_time"] = steamGames[k].playtime_forever

SyncErrors == {syncErrors[i] : i \in DOMAIN syncErrors}

\* A write call is in flight; it is the last call issued, and completionRate
\* is the rate it was built from (when the item was fetched).
Writing == pc = "await_write"
written == calls[Len(calls)]

(***************************************************************************)
(* C1: an item with no entry in the index gets, in one run, exactly one    *)
(* createPage call and no updatePage call, issued after its one            *)
(* achievement fetch, and the created properties are exactly appid, name   *)
(* and play_time of the item, plus achievement = the fetched ratio exactly *)
(* when that ratio is not -1.                                              *)
(***************************************************************************)
C1_CreateForUnmatched ==
    /\ \A k \in Items :
         (~IsMatched(k) /\ (Finished(k) \/ (Writing /\ appid = k))) =>
            /\ Cardinality(CallsOf(k, {"createPage"})) = 1
            /\ CallsOf(k, {"updatePage"}) = {}
            /\ Cardinality(CallsOf(k, {"getGameAchievements"})) = 1
            /\ \A c \in CallsOf(k, {"createPage"}) :
                 /\ \A f \in CallsOf(k, {"getGameAchievements"}) : f < c
                 /\ {"appid", "name", "play_time"} \subseteq DOMAIN calls[c].properties
                 /\ DOMAIN calls[c].properties \subseteq {"appid", "name", "play_time", "achievement"}
                 /\ calls[c].properties["appid"] = k
                 /\ calls[c].properties["name"] = steamGames[k].name
                 /\ calls[c].properties["play_time"] = steamGames[k].playtime_forever
    /\ (Writing /\ ~IsMatched(appid)) =>
         /\ written.api = "createPage" /\ written.item = appid
         /\ answer # NoAnswer
         /\ ("achievement" \in DOMAIN written.properties) <=> (completionRate # NoRate)
         /\ completionRate # NoRate => written.properties["achievement"] = completionRate

\* A run that created one page with an achievement and one without.
C1_Witness ==
    /\ pc = "done"
    /\ \E k \in Items : /\ ~IsMatched(k)
                        /\ \E c \in CallsOf(k, {"createPage"}) :
                              "achievement" \in DOMAIN calls[c].properties
    /\ \E k \in Items : /\ ~IsMatched(k)
                        /\ \E c \in CallsOf(k, {"createPage"}) :
                              "achievement" \notin DOMAIN calls[c].properties

(***************************************************************************)
(* C2: a matched item whose name and playtime equal those of its page      *)
(* (whatever its achievements are) gets no createPage and no updatePage.   *)
(***************************************************************************)
C2_NoWriteWhenUnchanged ==
    \A k \in Items :
        (IsMatched(k) /\ SameName(k) /\ SamePlaytime(k)) => CallsOf(k, WriteApis) = {}

\* A finished run in which an unchanged matched item was passed over and
\* another item was written.
C2_Witness ==
    /\ pc = "done"
    /\ \E k \in Items : IsMatched(k) /\ SameName(k) /\ SamePlaytime(k) /\ Finished(k)
    /\ \E i \in DOMAIN calls : calls[i].api \in WriteApis

(***************************************************************************)
(* C3: a matched item that differs from its page in the name only gets     *)
(* exactly one updatePage whose delta is exactly {name}, and no            *)
(* achievement fetch.                                                      *)
(***************************************************************************)
C3_NameOnlyUpdate ==
    \A k \in Items :
        (IsMatched(k) /\ ~SameName(k) /\ SamePlaytime(k)) =>
            /\ CallsOf(k, {"createPage", "getGameAchievements"}) = {}
            /\ (Writing /\ appid = k) => answer = NoAnswer
            /\ Finished(k) => Cardinality(CallsOf(k, {"updatePage"})) = 1
            /\ \A c \in CallsOf(k, {"updatePage"}) :
                 /\ DOMAIN calls[c].properties = {"name"}
                 /\ calls[c].properties["name"] = steamGames[k].name
                 /\ calls[c].arg = notionAppIdMap[k].id

C3_Witness ==
    \E k \in Items :
        /\ Finished(k) /\ IsMatched(k) /\ ~SameName(k) /\ SamePlaytime(k)
        /\ "name" \in DOMAIN PageProps(k)
        /\ CallsOf(k, {"updatePage"}) # {}

(***************************************************************************)
(* C4: a matched item whose playtime differs gets one updatePage whose     *)
(* delta holds play_time, holds achievement exactly when the fetched ratio *)
(* is known and differs from the page's achievement, and holds name        *)
(* exactly when the name differs; with an unknown ratio, or one equal to   *)
(* the page's value, the delta has no achievement.                         *)
(***************************************************************************)
C4_PlaytimeUpdate ==
    /\ \A k \in Items :
         (IsMatched(k) /\ ~SamePlaytime(k) /\ (Finished(k) \/ (Writing /\ appid = k))) =>
            /\ Cardinality(CallsOf(k, {"updatePage"})) = 1
            /\ \A c \in CallsOf(k, {"updatePage"}) :
                 LET delta == calls[c].properties
                 IN /\ "play_time" \in DOMAIN delta
                    /\ delta["play_time"] = steamGames[k].playtime_forever
                    /\ ("name" \in DOMAIN delta) <=> ~SameName(k)
                    /\ DOMAIN delta \subseteq {"name", "play_time", "achievement"}
    /\ (Writing /\ IsMatched(appid) /\ ~SamePlaytime(appid)) =>
         LET delta == written.properties
             stale == /\ completionRate # NoRate
                      /\ ~("achievement" \in DOMAIN PageProps(appid)
                             /\ PageProps(appid)["achievement"] = completionRate)
         IN /\ written.api = "updatePage" /\ written.item = appid
            /\ answer # NoAnswer
            /\ ("achievement" \in DOMAIN delta) <=> stale
            /\ stale => delta["achievement"] = completionRate

\* The fetch gave the value the page already has, and the delta went out
\* with the playtime alone.
C4_Witness ==
    /\ Writing /\ IsMatched(appid) /\ ~SamePlaytime(appid)
    /\ "achievement" \in DOMAIN PageProps(appid)
    /\ completionRate = PageProps(appid)["achievement"]
    /\ DOMAIN written.properties = {"play_time"}

(***************************************************************************)
(* C5: the achievement endpoint is called for an item exactly when the     *)
(* item is unmatched or its playtime differs from its page's; at most once *)
(* per item; and before the item's createPage / updatePage.                *)
(***************************************************************************)
C5_FetchOnlyWhenNeeded ==
    \A k \in Items :
        /\ Cardinality(CallsOf(k, {"getGameAchievements"})) <= 1
        /\ \A f \in CallsOf(k, {"getGameAchievements"}) : \A w \in CallsOf(k, WriteApis) : f < w
        /\ (IsMatched(k) /\ SamePlaytime(k)) => CallsOf(k, {"getGameAchievements"}) = {}
        /\ Finished(k) =>
             (CallsOf(k, {"getGameAchievements"}) # {} <=> (~IsMatched(k) \/ ~SamePlaytime(k)))
        /\ CallsOf(k, WriteApis) # {} =>
             (CallsOf(k, {"getGameAchievements"}) # {} <=> (~IsMatched(k) \/ ~SamePlaytime(k)))

\* A finished run with one item fetched and written and one matched item of
\* unchanged playtime that was written without a fetch.
C5_Witness ==
    /\ pc = "done"
    /\ \E k \in Items : CallsOf(k, {"getGameAchievements"}) # {} /\ CallsOf(k, WriteApis) # {}
    /\ \E k \in Items : IsMatched(k) /\ SamePlaytime(k) /\ CallsOf(k, WriteApis) # {}

(***************************************************************************)
(* C6: whatever createPage / updatePage calls fail, the run is not         *)
(* aborted: the loop enters every item of the catalog once, in order,      *)
(* issues at most one write per item (no retry), goes on after a failed    *)
(* item, and ends in the completed state.                                  *)
(***************************************************************************)
C6_Safe ==
    /\ pc = "exit1" => processed = <<>>
    /\ Len(processed) <= Len(keys)
    /\ processed = SubSeq(keys, 1, Len(processed))
    /\ pc = "done" => processed = keys
    /\ \A k \in Items : Cardinality(CallsOf(k, WriteApis)) <= 1
    /\ \A k \in SyncErrors : Finished(k) /\ Cardinality(CallsOf(k, WriteApis)) = 1
    /\ Len(syncErrors) = Cardinality(SyncErrors)

C6_RunCompletes == [](C6_Safe) /\ (InLoop ~> (pc = "done"))

\* The first item's write failed, the second item's write was issued, the run completed.
C6_Witness ==
    /\ pc = "done"
    /\ Len(keys) = 2
    /\ keys[1] \in SyncErrors
    /\ CallsOf(keys[2], WriteApis) # {}

(***************************************************************************)
(* C7: scenario C.  As stated: an item identical to its page, achievement  *)
(* endpoint unreachable: the item is logged as a failure, no write is      *)
(* attempted for it, the remaining items are processed.                    *)
(***************************************************************************)
Identical(k) == IsMatched(k) /\ SameName(k) /\ SamePlaytime(k)

C7_ScenarioC_AsStated ==
    \A k \in Items :
        (Finished(k) /\ Identical(k) /\ ~steamStatsUp) =>
            /\ k \in SyncErrors
            /\ CallsOf(k, WriteApis) = {}
            /\ pc = "done" => processed = keys

(***************************************************************************)
(* C7 amended: an item identical to its page, achievement endpoint         *)
(* unreachable: the endpoint is not even called for it, nothing is logged  *)
(* as a failure for it, no write is attempted for it, and the run goes on  *)
(* to the remaining items.                                                 *)
(***************************************************************************)
C7_ScenarioC ==
    \A k \in Items :
        (Identical(k) /\ ~steamStatsUp) =>
            /\ k \notin SyncErrors
            /\ CallsOf(k, WriteApis \cup {"getGameAchievements"}) = {}
            /\ pc # "exit1"
            /\ pc = "done" => processed = keys

\* The identical item came first, the endpoint was down, and the second item
\* was fetched (in vain) and written.
C7_Witness ==
    /\ pc = "done"
    /\ ~steamStatsUp
    /\ Len(keys) = 2
    /\ Identical(keys[1])
    /\ CallsOf(keys[2], {"getGameAchievements"}) # {}
    /\ CallsOf(keys[2], WriteApis) # {}

(***************************************************************************)
(* C8: whatever the achievement endpoint answers, getGameAchievements      *)
(* returns a rate (-1 on every failure) and does not raise: the item is    *)
(* not logged as failed because of it, and the write is still issued - the *)
(* update of a matched item with its playtime change (and name change),    *)
(* the create of an unmatched one.  A matched item with only the name      *)
(* changed is updated too.                                                 *)
(***************************************************************************)
AnswerFailed(ans) == ans.status # 200 \/ ans.body # "ok"

C8_FetchNeverRaises ==
    /\ (Writing /\ answer # NoAnswer) =>
         /\ AnswerFailed(answer) => completionRate = NoRate
         /\ written.item = appid
         /\ written.api = (IF IsMatched(appid) THEN "updatePage" ELSE "createPage")
         /\ "play_time" \in DOMAIN written.properties
         /\ (IsMatched(appid) /\ ~SameName(appid)) => "name" \in DOMAIN written.properties
    /\ \A k \in Items :
         /\ (Finished(k) /\ CallsOf(k, {"getGameAchievements"}) # {}) =>
               Cardinality(CallsOf(k, {IF IsMatched(k) THEN "updatePage" ELSE "createPage"})) = 1
         /\ (Finished(k) /\ IsMatched(k) /\ (~SameName(k) \/ ~SamePlaytime(k))) =>
               Cardinality(CallsOf(k, {"updatePage"})) = 1

\* The endpoint answered 500 for a matched item whose name and playtime both
\* changed, and the update with both changes is in flight.
C8_Witness ==
    /\ Writing
    /\ answer.status = 500
    /\ IsMatched(appid) /\ ~SameName(appid)
    /\ written.api = "updatePage"
    /\ DOMAIN written.properties = {"name", "play_time"}

(***************************************************************************)
(* C9: the paginated read.  The first query has no cursor; each following  *)
(* query carries the next_cursor of the answer before it; the read ends    *)
(* only on an answer without next_cursor; the results are the records of   *)
(* all pages in order; and nothing of the reconciliation (index, fetch,    *)
(* create, update) happens before the last page is in.                     *)
(***************************************************************************)
IsQuery(c) == c.api = "queryDatabase"
Last(q) == q[Len(q)]

C9_FullReadFirst ==
    LET q == SelectSeq(calls, IsQuery)
    IN /\ pagesState # "idle" =>
            /\ Len(q) >= 1
            /\ q[1].arg = NoCursor
            /\ Len(q) = Len(pageCursors) + (IF pagesState \in {"pending", "failed"} THEN 1 ELSE 0)
       /\ pagesState = "idle" => (q = <<>> /\ pageCursors = <<>>)
       /\ \A j \in 2..Len(q) : q[j].arg = pageCursors[j - 1]
       /\ \A j \in 1..(Len(pageCursors) - 1) : pageCursors[j] # NoCursor
       /\ pagesState = "done" => Last(pageCursors) = NoCursor
       /\ pc = "fetching" => results = SubSeq(notionDb, 1, Len(results))
       /\ (pc = "fetching" /\ pagesState = "done") => results = notionDb
       /\ (\/ InLoop
           \/ DOMAIN notionAppIdMap # {}
           \/ \E i \in DOMAIN calls : calls[i].api \in WriteApis \cup {"getGameAchievements"})
          => /\ pagesState = "done"
             /\ ownedState = "done"

\* Two pages were read and the loop is under way.
C9_Witness ==
    /\ InLoop
    /\ Len(pageCursors) = 2
    /\ Len(results) = 2
    /\ \E i \in DOMAIN calls : calls[i].api \in WriteApis

(***************************************************************************)
(* C10: an updatePage payload holds only properties among name, play_time, *)
(* achievement whose new value differs from the value on the matched page  *)
(* (as read, and as it is in the database when the call is made), never    *)
(* appid; applying it leaves every property outside the delta, and every   *)
(* other page, as it was; no call deletes a page.                          *)
(***************************************************************************)
C10_Payload ==
    /\ \A i \in DOMAIN calls :
         /\ calls[i].api \in {"getOwnedGames", "queryDatabase", "getGameAchievements",
                              "createPage", "updatePage"}
         /\ calls[i].api = "updatePage" =>
              LET k == calls[i].item
                  delta == calls[i].properties
              IN /\ IsMatched(k)
                 /\ calls[i].arg = notionAppIdMap[k].id
                 /\ DOMAIN delta \subseteq {"name", "play_time", "achievement"}
                 /\ delta # EmptyObj
                 /\ \A p \in DOMAIN delta :
                      ~(p \in DOMAIN PageProps(k) /\ PageProps(k)[p] = delta[p])
    /\ (Writing /\ path = "update") =>
         \A p \in DOMAIN propertiesToUpdate :
             ~(p \in DOMAIN notionDb[existingPage.id].properties
                 /\ notionDb[existingPage.id].properties[p] = propertiesToUpdate[p])

C10_Frame ==
    notionDb' # notionDb =>
        /\ pc = "await_write"
        /\ Len(notionDb') >= Len(notionDb)
        /\ \A i \in DOMAIN notionDb :
             /\ notionDb'[i].id = notionDb[i].id
             /\ \A p \in PropNames :
                  (path = "update" /\ i = existingPage.id /\ p \in DOMAIN propertiesToUpdate)
                  \/ /\ (p \in DOMAIN notionDb'[i].properties) <=> (p \in DOMAIN notionDb[i].properties)
                     /\ p \in DOMAIN notionDb[i].properties =>
                          notionDb'[i].properties[p] = notionDb[i].properties[p]

C10_PartialUpdate == [](C10_Payload) /\ [][C10_Frame]_vars

\* A page that holds an achievement was updated with a delta that had none,
\* and still holds it.
C10_Witness ==
    \E k \in Items :
        /\ Finished(k) /\ IsMatched(k)
        /\ "achievement" \in DOMAIN PageProps(k)
        /\ \E c \in CallsOf(k, {"updatePage"}) :
             /\ "achievement" \notin DOMAIN calls[c].properties
             /\ "play_time" \in DOMAIN calls[c].properties
             /\ notionDb[calls[c].arg].properties["play_time"] = calls[c].properties["play_time"]
             /\ notionDb[calls[c].arg].properties["achievement"] = PageProps(k)["achievement"]

(***************************************************************************)
(* C11: the index built from the records read.  As stated: every record    *)
(* whose appid property is present is in the index under its appid, an     *)
(* appid maps to the last record in sequence order that carries it, a      *)
(* record without the property is skipped, and the index has no entry for  *)
(* an appid no record carries.                                             *)
(***************************************************************************)
HasAppid(page) == "appid" \in DOMAIN page.properties
Carriers(a) == {i \in DOMAIN results : HasAppid(results[i]) /\ results[i].properties["appid"] = a}
LastOf(S) == CHOOSE i \in S : \A j \in S : j <= i

C11_Index_AsStated ==
    InLoop =>
        /\ \A i \in DOMAIN results :
              HasAppid(results[i]) =>
                 /\ results[i].properties["appid"] \in DOMAIN notionAppIdMap
                 /\ notionAppIdMap[results[i].properties["appid"]] =
                       results[LastOf(Carriers(results[i].properties["appid"]))]
        /\ \A a \in DOMAIN notionAppIdMap : Carriers(a) # {}

(***************************************************************************)
(* C11 amended: the same, with "present" read as "present and not 0": a    *)
(* record whose appid is absent or 0 is skipped, and 0 is never a key of   *)
(* the index.                                                              *)
(***************************************************************************)
C11_Index ==
    InLoop =>
        /\ \A i \in DOMAIN results :
              (HasAppid(results[i]) /\ results[i].properties["appid"] # 0) =>
                 /\ results[i].properties["appid"] \in DOMAIN notionAppIdMap
                 /\ notionAppIdMap[results[i].properties["appid"]] =
                       results[LastOf(Carriers(results[i].properties["appid"]))]
        /\ \A a \in DOMAIN notionAppIdMap : a # 0 /\ Carriers(a) # {}
        /\ (\A i \in DOMAIN results :
               ~HasAppid(results[i]) \/ results[i].properties["appid"] = 0)
             => notionAppIdMap = EmptyObj

\* Two records carry the same appid and the index holds the second.
C11_Witness ==
    /\ InLoop
    /\ Len(results) = 2
    /\ HasAppid(results[1]) /\ HasAppid(results[2])
    /\ results[1].properties["appid"] = results[2].properties["appid"]
    /\ notionAppIdMap[results[2].properties["appid"]].id = results[2].id
    /\ results[1].id # results[2].id

(***************************************************************************)
(* C12: for an achievements array (response 200 with playerstats), the     *)
(* returned completionRate is unknown (-1) when the array is empty, and    *)
(* otherwise is (number of entries with achieved = 1) / (length), a value  *)
(* in [0, 1]; 3 achieved of 4 gives exactly 3/4; every call on the same    *)
(* response returns the same value.                                        *)
(***************************************************************************)
Achieved(flags) == Cardinality({i \in DOMAIN flags : flags[i] = 1})

C12_Ratio ==
    (pc = "ach_returned" /\ answer.status = 200 /\ answer.body = "ok") =>
        LET flags == answer.achievements
            n == completionRate[1]
            d == completionRate[2]
        IN /\ Len(flags) = 0 => completionRate = NoRate
           /\ Len(flags) > 0 =>
                 /\ d > 0 /\ 0 <= n /\ n <= d
                 /\ n * Len(flags) = Achieved(flags) * d
                 /\ completionRate = Div(n, d)
           /\ (Len(flags) = 4 /\ Achieved(flags) = 3) => completionRate = <<3, 4>>

\* The call returned 3/4 for four entries of which three are achieved.
C12_Witness ==
    /\ pc = "ach_returned"
    /\ answer.status = 200 /\ answer.body = "ok"
    /\ Len(answer.achievements) = 4
    /\ Achieved(answer.achievements) = 3
    /\ completionRate = <<3, 4>>

(***************************************************************************)
(* C13: a query of the full read that throws (on any page) ends the run in *)
(* the failed state, exit status 1, and the run stays there: its calls are *)
(* the catalog fetch and queries only, no item is entered, no achievement  *)
(* fetch, createPage or updatePage is issued.  An item whose write throws  *)
(* is logged instead, the run does not exit for it and goes through the    *)
(* remaining items.                                                        *)
(***************************************************************************)
C13_Safe ==
    /\ pagesState = "failed" =>
         /\ pc = "exit1"
         /\ processed = <<>>
         /\ notionAppIdMap = EmptyObj
         /\ \A i \in DOMAIN calls : calls[i].api \in {"getOwnedGames", "queryDatabase"}
    /\ pc = "exit1" =>
         /\ pagesState = "failed" \/ (ConfigRejected(config) /\ calls = <<>>)
         /\ syncErrors = <<>>
    /\ syncErrors # <<>> => (InLoop /\ pagesState = "done")
    /\ (pc = "done" /\ syncErrors # <<>>) => processed = keys

C13_QueryFailureFatal == [](C13_Safe) /\ [][pc = "exit1" => pc' = "exit1"]_vars

\* The first page was read and the query for the second one threw.
C13_Witness ==
    /\ pc = "exit1"
    /\ pagesState = "failed"
    /\ Len(pageCursors) = 1
    /\ Len(SelectSeq(calls, IsQuery)) = 2

(***************************************************************************)
(* C14: getOwnedGames never rejects: whatever goes wrong with its request  *)
(* it resolves, to an empty catalog.  With a non-empty library and an      *)
(* empty catalog (so the fetch failed) the run issues no achievement       *)
(* fetch, no createPage and no updatePage, does not exit for it, and once  *)
(* the full read is in it completes.                                       *)
(***************************************************************************)
CatalogFailed == ownedState = "done" /\ steamLibrary # <<>> /\ steamGames = EmptyObj

C14_Safe ==
    /\ ownedState # "failed"
    /\ ownedState = "done" => steamGames \in {EmptyObj, ReduceGames(EmptyObj, steamLibrary)}
    /\ CatalogFailed =>
         /\ \A i \in DOMAIN calls : calls[i].api \in {"getOwnedGames", "queryDatabase"}
         /\ processed = <<>> /\ syncErrors = <<>>
         /\ pagesState # "failed" => pc \in {"fetching", "loop", "done"}

C14_CatalogFailure ==
    [](C14_Safe) /\ ((CatalogFailed /\ pagesState = "done") ~> (pc = "done"))

\* The catalog fetch failed over a non-empty library, a non-empty database was
\* read, and the run completed.
C14_Witness ==
    /\ pc = "done"
    /\ CatalogFailed
    /\ Len(results) = 2
    /\ Len(calls) = 3

(***************************************************************************)
(* C15: the per-item work is sequential.  A remote call of the loop is in  *)
(* flight only for the item at hand, and it is the last call issued; when  *)
(* the loop takes an item, every call issued so far was for an item before *)
(* it and has been answered.  In the order of issue the per-item calls     *)
(* follow the order of the catalog, each item's fetch (if any) directly    *)
(* before its write (if any), one of each at most.                         *)
(***************************************************************************)
ItemCalls == SelectSeq(calls, LAMBDA c : c.item # 0)
KeyPos(k) == CHOOSE j \in DOMAIN keys : keys[j] = k
Awaiting == pc \in {"await_ach", "await_write"}

C15_Sequential ==
    /\ \A i \in DOMAIN calls : calls[i].item # 0 => (InLoop /\ calls[i].item \in DOMAIN steamGames)
    /\ InLoop =>
         /\ \A i \in DOMAIN ItemCalls :
               KeyPos(ItemCalls[i].item) < idx
               \/ (Awaiting /\ KeyPos(ItemCalls[i].item) = idx /\ i >= Len(ItemCalls) - 1)
         /\ \A i, j \in DOMAIN ItemCalls :
               i < j =>
                  /\ KeyPos(ItemCalls[i].item) <= KeyPos(ItemCalls[j].item)
                  /\ ItemCalls[i].item = ItemCalls[j].item =>
                        /\ j = i + 1
                        /\ ItemCalls[i].api = "getGameAchievements"
                        /\ ItemCalls[j].api \in WriteApis
         /\ Awaiting =>
               /\ Last(calls).item = appid
               /\ Last(calls).api \in (IF pc = "await_ach" THEN {"getGameAchievements"} ELSE WriteApis)
         /\ ~Awaiting => \A i \in DOMAIN ItemCalls : KeyPos(ItemCalls[i].item) < idx

\* The second item's write is in flight after the first item was fetched and
\* written.
C15_Witness ==
    /\ pc = "await_write"
    /\ idx = 2
    /\ Len(ItemCalls) = 4
    /\ ItemCalls[1].item = keys[1] /\ ItemCalls[2].item = keys[1]
    /\ ItemCalls[3].item = keys[2] /\ ItemCalls[4].item = keys[2]

(***************************************************************************)
(* C16: the catalog fetch and the full read are both started (in this      *)
(* order, in one step) before either has an answer: whenever the catalog   *)
(* has settled or a page of the read has arrived, both requests had been   *)
(* issued; their answers come in any order; and the index is built, and    *)
(* the loop entered, only in a step taken when both have finished.         *)
(***************************************************************************)
C16_Safe ==
    /\ (ownedState = "idle") <=> (pagesState = "idle")
    /\ (ownedState # "idle" \/ pagesState # "idle" \/ pageCursors # <<>>
          \/ pc \notin {"start", "exit1"}) =>
         /\ Len(calls) >= 2
         /\ calls[1].api = "getOwnedGames"
         /\ calls[2].api = "queryDatabase" /\ calls[2].arg = NoCursor
    /\ (InLoop \/ notionAppIdMap # EmptyObj \/ keys # <<>>) =>
         (ownedState = "done" /\ pagesState = "done")

C16_IndexStep ==
    (notionAppIdMap' # notionAppIdMap \/ keys' # keys \/ (pc = "fetching" /\ pc' = "loop")) =>
        /\ ownedState = "done" /\ pagesState = "done"
        /\ UNCHANGED <<ownedState, pagesState, steamGames, results>>

C16_ConcurrentStart == [](C16_Safe) /\ [][C16_IndexStep]_vars

\* Two pages of the read have arrived and the read is over while the catalog
\* fetch is still pending.
C16_Witness ==
    /\ pc = "fetching"
    /\ ownedState = "pending"
    /\ pagesState = "done"
    /\ Len(pageCursors) = 2

(***************************************************************************)
(* C17: a matched item whose playtime differs, whose page has no           *)
(* achievement property, and whose fetch returned the known ratio 0: the   *)
(* update that goes out holds achievement = 0 besides play_time.           *)
(***************************************************************************)
Zero == Div(0, 1)

C17_AbsentVersusZero ==
    (/\ Writing /\ path = "update"
     /\ IsMatched(appid) /\ ~SamePlaytime(appid)
     /\ "achievement" \notin DOMAIN PageProps(appid)
     /\ answer # NoAnswer /\ completionRate = Zero)
    => /\ written.api = "updatePage" /\ written.item = appid
       /\ written.arg = notionAppIdMap[appid].id
       /\ {"play_time", "achievement"} \subseteq DOMAIN written.properties
       /\ written.properties["achievement"] = Zero
       /\ written.properties["play_time"] = steamGames[appid].playtime_forever

\* Such an update, carrying exactly play_time and achievement = 0, is in flight.
C17_Witness ==
    /\ Writing /\ path = "update"
    /\ "achievement" \notin DOMAIN PageProps(appid)
    /\ "play_time" \in DOMAIN PageProps(appid)
    /\ completionRate = Zero
    /\ answer.status = 200
    /\ DOMAIN written.properties = {"play_time", "achievement"}
    /\ written.properties["achievement"] = Zero

(***************************************************************************)
(* C18: in one run an item leads to at most one write call, a createPage   *)
(* or an updatePage and never both; an updatePage targets the id of the    *)
(* page the index holds under the item's appid, a page that was read and   *)
(* carries that appid; no two updates target the same page; every          *)
(* createPage adds a page of its own, so that no two writes of the run     *)
(* touch the same page.                                                    *)
(***************************************************************************)
Updates == {i \in DOMAIN calls : calls[i].api = "updatePage"}
Creates == {i \in DOMAIN calls : calls[i].api = "createPage"}
ReadIds == {results[i].id : i \in DOMAIN results}

C18_OneWritePerRecord ==
    /\ \A k \in Items : Cardinality(CallsOf(k, WriteApis)) <= 1
    /\ \A i \in Updates :
         /\ calls[i].item \in DOMAIN notionAppIdMap
         /\ calls[i].arg = notionAppIdMap[calls[i].item].id
         /\ notionAppIdMap[calls[i].item].properties["appid"] = calls[i].item
         /\ calls[i].arg \in ReadIds
    /\ \A i, j \in Updates : i # j => calls[i].arg # calls[j].arg
    /\ \A i \in Creates : calls[i].item \notin DOMAIN notionAppIdMap
    /\ \A i, j \in Updates \cup Creates : i # j => calls[i].item # calls[j].item
    /\ \A i, j \in DOMAIN notionDb : i # j => notionDb[i].id # notionDb[j].id
    /\ InLoop =>
         /\ Len(notionDb) - Len(results) <= Cardinality(Creates)
         /\ \A i \in DOMAIN notionDb :
               i > Len(results) =>
                  /\ notionDb[i].id \notin ReadIds
                  /\ \E c \in Creates : notionDb[i].properties = calls[c].properties

\* A finished run in which two pages were updated, each by its own call, and
\* both updates were applied.
C18_Witness ==
    /\ pc = "done"
    /\ Cardinality(Updates) = 2
    /\ \A i \in Updates : notionDb[calls[i].arg].properties["name"] = calls[i].properties["name"]

(***************************************************************************)
(* C19: convergence.  When the run before completed and none of its writes *)
(* failed (each was applied to the database), a run that gets the same     *)
(* catalog from Steam finds every item matched with its name and playtime  *)
(* and issues no achievement fetch, no createPage and no updatePage,       *)
(* whether the achievement endpoint is up or down.                         *)
(***************************************************************************)
Before == previous[Len(previous)]
Converged ==
    /\ previous # <<>>
    /\ Before.pc = "done"
    /\ Before.syncErrors = <<>>
    /\ ownedState = "done"
    /\ steamGames = Before.steamGames

C19_SecondRunQuiet ==
    Converged =>
        /\ \A i \in DOMAIN calls : calls[i].api \in {"getOwnedGames", "queryDatabase"}
        /\ syncErrors = <<>>
        /\ InLoop => \A k \in DOMAIN steamGames : Identical(k)

\* The run before updated the page of one of two games, achievement included;
\* this run went through both games and called nothing for them.
C19_Witness ==
    /\ Converged
    /\ pc = "done"
    /\ Len(processed) = 2
    /\ \E i \in DOMAIN Before.calls :
          /\ Before.calls[i].api = "updatePage"
          /\ "achievement" \in DOMAIN Before.calls[i].properties
    /\ \A i \in DOMAIN calls : calls[i].item = 0

(***************************************************************************)
(* C20: an achievement value missed in one run is not recovered later.     *)
(* When an earlier run updated the playtime of a matched item with a delta *)
(* that has no achievement (its fetch gave no known ratio to write) and    *)
(* the update succeeded, then in every later run, the playtime at Steam    *)
(* being the same, no achievement fetch is made for the item and the       *)
(* achievement of its page is as that earlier run read it - although the   *)
(* endpoint may by now answer with a known ratio.                          *)
(***************************************************************************)
\* In the finished run r, item k was updated with play_time and no achievement,
\* and the update was applied.
Missed(r, k) ==
    /\ r.pc = "done"
    /\ k \in DOMAIN r.notionAppIdMap
    /\ \A e \in DOMAIN r.syncErrors : r.syncErrors[e] # k
    /\ \E f \in DOMAIN r.calls : r.calls[f].api = "getGameAchievements" /\ r.calls[f].item = k
    /\ \E u \in DOMAIN r.calls :
          /\ r.calls[u].api = "updatePage" /\ r.calls[u].item = k
          /\ "play_time" \in DOMAIN r.calls[u].properties
          /\ "achievement" \notin DOMAIN r.calls[u].properties

SameAchievement(p, q) ==
    /\ ("achievement" \in DOMAIN p) <=> ("achievement" \in DOMAIN q)
    /\ "achievement" \in DOMAIN p => p["achievement"] = q["achievement"]

C20_MissedNotRecovered ==
    \A n \in DOMAIN previous : \A k \in 1..MaxAppId :
        Missed(previous[n], k) =>
            LET page == previous[n].notionAppIdMap[k]
            IN /\ CallsOf(k, {"getGameAchievements"}) = {}
               /\ notionDb[page.id].id = page.id
               /\ SameAchievement(notionDb[page.id].properties, page.properties)
               /\ notionDb[page.id].properties["play_time"] =
                     previous[n].steamGames[k].playtime_forever
               /\ (InLoop /\ k \in DOMAIN steamGames) =>
                     /\ steamGames[k].playtime_forever = previous[n].steamGames[k].playtime_forever
                     /\ IsMatched(k) /\ notionAppIdMap[k].id = page.id
                     /\ SamePlaytime(k)

\* The endpoint was down in the run before, which updated the playtime alone
\* of a page without achievement; it is up in this run, which has gone through
\* the item without asking it, and the page still has no achievement.
C20_Witness ==
    /\ Len(previous) = 1
    /\ Missed(previous[1], 1)
    /\ ~previous[1].steamStatsUp
    /\ steamStatsUp
    /\ pc = "done"
    /\ processed = <<1>>
    /\ "achievement" \notin DOMAIN notionDb[previous[1].notionAppIdMap[1].id].properties

====
